---- MODULE Spec2Model ----
(***************************************************************************)
(* Model of the protobuf-over-RPC protocol adapter of the search back-end  *)
(* (searchlib/engine/proto_rpc_adapter.cpp): the compression envelope      *)
(* codec, the lazy request decoders, the completion handlers, the three    *)
(* dispatch methods and the client side codec; and of the Coverage         *)
(* record of a search reply (searchlib/engine/searchreply.h).              *)
(*                                                                         *)
(* Eight specifications share the variables:                               *)
(*   Spec         the adapter serving calls whose envelopes declare their  *)
(*                true size, against a domain server that keeps the        *)
(*                reply-or-defer contract;                                 *)
(*   SpecLive     the same with every envelope a peer can send, under      *)
(*                fair scheduling of the adapter and the server;           *)
(*   SpecClock    the adapter serving one call while the clock advances;   *)
(*   SpecServer   the adapter serving one call against a domain server     *)
(*                that may also break the reply-or-defer contract;         *)
(*   SpecClient   a client filling in outbound calls that the transport    *)
(*                resolves against the registered methods;                 *)
(*   SpecCodec    one envelope going encode -> wire -> decode, with the    *)
(*                wire open to corruption;                                 *)
(*   SpecConfig   encode_message running while an operator replaces the    *)
(*                global compression configuration;                        *)
(*   SpecCoverage the operations of one Coverage record.                   *)
(***************************************************************************)
EXTENDS Integers, Sequences, FiniteSets, TLC

VARIABLES
    cfg,        \* FS4PersistentPacketStreamer::Instance: [type, level, limit]
    cfgHist,    \* history: every configuration that has been in force, in order
    ndebug,     \* the build: TRUE when assert() is compiled out
    crashed,    \* the process was terminated by a failed assert()
    enc,        \* one encode_message invocation in progress
    wire,       \* the FRT_Values the encoder wrote, as the peer receives them
    tampered,   \* history: the wire values were altered after encode_message
    dec,        \* outcome of the last decode_message on the wire values
    cli,        \* outcome of the last client side decode_X_reply
    rpc,        \* the FRT_RPCRequest objects, by call id, each with the
                \* history of its events (log) and of its times
    disp,       \* position of the transport thread running rpc_X, by call id
    srv,        \* what the domain server holds for each call
    now,        \* the clock FastosClock reads
    orb,        \* the methods defined on the FRT_Supervisor, in order
    outbound,   \* the outbound FRT_RPCRequest a client has filled in
    coverage,   \* one SearchReply::Coverage record
    covOp       \* history: the last operation on the Coverage record

vars == <<cfg, cfgHist, ndebug, crashed, enc, wire, tampered, dec, cli,
          rpc, disp, srv, now, orb, outbound, coverage, covOp>>

codecVars == <<enc, wire, tampered, dec, cli>>
adapterVars == <<rpc, disp, srv, now>>
clientVars == <<orb, outbound>>
coverageVars == <<coverage, covOp>>

-----------------------------------------------------------------------------
(* Bounds of the model *)

\* longest field list of a structured message
MaxFields == 4
\* configuration replacements the operator makes in one behaviour
MaxUpdates == 2
\* calls the transport dispatches in one behaviour
MaxCalls == 2
\* last value of the clock
MaxTime == 2
\* largest document count and node count a caller passes to a Coverage
MaxCount == 2

-----------------------------------------------------------------------------
(* Wire constants *)

\* CompressionConfig::Type values on the wire
NONE == 0
LZ4 == 6
ZSTD == 7
\* the fixed effectiveness threshold (percent) of get_compression_config
CompressionThreshold == 80

Algorithms == {NONE, LZ4, ZSTD}

\* the six protobuf message types the codec is instantiated for
RequestTypes == {"SearchRequest", "DocsumRequest", "MonitorRequest"}
ReplyTypes == {"SearchReply", "DocsumReply", "MonitorReply"}
MsgTypes == RequestTypes \cup ReplyTypes

FieldValues == {1, 2}

\* structured messages: a list of field values
Messages == UNION {[1..n -> FieldValues] : n \in 0..MaxFields}

-----------------------------------------------------------------------------
(* protobuf: SerializeAsString / ParseFromArray *)

Tag(t) ==
    CASE t = "SearchRequest" -> 1
      [] t = "SearchReply" -> 2
      [] t = "DocsumRequest" -> 3
      [] t = "DocsumReply" -> 4
      [] t = "MonitorRequest" -> 5
      [] t = "MonitorReply" -> 6

\* a message without fields serializes to no bytes; otherwise the type's tag
\* is followed by the field values
SerializeAsString(t, m) ==
    IF m = <<>> THEN <<>> ELSE <<Tag(t)>> \o m

\* ParseFromArray: [ok, msg]; msg is the default (empty) message on failure
ParseFromArray(t, bytes) ==
    IF bytes = <<>>
    THEN [ok |-> TRUE, msg |-> <<>>]
    ELSE IF /\ Len(bytes) >= 2
            /\ bytes[1] = Tag(t)
            /\ \A i \in 2..Len(bytes) : bytes[i] \in FieldValues
         THEN [ok |-> TRUE, msg |-> SubSeq(bytes, 2, Len(bytes))]
         ELSE [ok |-> FALSE, msg |-> <<>>]

-----------------------------------------------------------------------------
(* vespalib::compression: compress / decompress / CompressionConfig *)

\* offset that marks a literal byte in the stream of algorithm alg
Lit(alg) == IF alg = LZ4 THEN 10 ELSE 20

IsLit(alg, b) == b >= Lit(alg) /\ b < Lit(alg) + 10

\* length of the run of equal bytes that s starts with
RECURSIVE RunLen(_)
RunLen(s) ==
    IF Len(s) <= 1 THEN Len(s)
    ELSE IF s[2] = s[1] THEN 1 + RunLen(Tail(s)) ELSE 1

\* the compressed stream: a run of k >= 2 bytes x is <<100 + k, literal x>>,
\* a single byte is its literal
RECURSIVE Pack(_, _)
Pack(alg, s) ==
    IF s = <<>> THEN <<>>
    ELSE LET k == RunLen(s)
             x == s[1] + Lit(alg)
         IN  IF k >= 2
             THEN <<100 + k, x>> \o Pack(alg, SubSeq(s, k + 1, Len(s)))
             ELSE <<x>> \o Pack(alg, Tail(s))

Copies(k, b) == [i \in 1..k |-> b]

\* bytes that belong to no token of the algorithm are skipped
RECURSIVE Unpack(_, _)
Unpack(alg, z) ==
    IF z = <<>> THEN <<>>
    ELSE IF z[1] > 100 /\ Len(z) >= 2 /\ IsLit(alg, z[2])
         THEN Copies(z[1] - 100, z[2] - Lit(alg))
                  \o Unpack(alg, SubSeq(z, 3, Len(z)))
         ELSE IF IsLit(alg, z[1])
              THEN <<z[1] - Lit(alg)>> \o Unpack(alg, Tail(z))
              ELSE Unpack(alg, Tail(z))

CompressionConfig(type, level, threshold, minSize) ==
    [type |-> type, level |-> level, threshold |-> threshold,
     minSize |-> minSize]

\* unknown encodings are read as raw
toType(encoding) == IF encoding \in {LZ4, ZSTD} THEN encoding ELSE NONE

\* compress skips the algorithm when the input is below minSize or when the
\* result is not below threshold percent of the input; it returns the
\* algorithm actually used
compress(conf, org) ==
    LET z == Pack(conf.type, org)
    IN  IF /\ conf.type # NONE
           /\ Len(org) >= conf.minSize
           /\ Len(z) < (Len(org) * conf.threshold) \div 100
        THEN [type |-> conf.type, data |-> z]
        ELSE [type |-> NONE, data |-> org]

decompress(type, uncompressedLen, blob) ==
    IF type = NONE THEN blob ELSE Unpack(type, blob)

-----------------------------------------------------------------------------
(* FRT_Values *)

AddInt8(values, v) == Append(values, [t |-> "b", v |-> v % 256])
\* the sizes of the model stay far below 2^32, where the value would wrap
AddInt32(values, v) == Append(values, [t |-> "i", v |-> v])
AddData(values, buf) == Append(values, [t |-> "x", v |-> buf])

TypeString(values) == [i \in 1..Len(values) |-> values[i].t]

CheckReturnTypes(values, types) == TypeString(values) = types

-----------------------------------------------------------------------------
(* The global compression configuration *)

\* the settings the operator chooses among
ConfigChoices ==
    { [type |-> LZ4, level |-> 9, limit |-> 0],
      [type |-> ZSTD, level |-> 3, limit |-> 5],
      [type |-> NONE, level |-> 1, limit |-> 0] }

\* the streamer's settings after construction
DefaultConfig == [type |-> LZ4, level |-> 9, limit |-> 0]

ConfigFields == {"type", "level", "limit"}

\* no setting is negative
Unread == [type |-> -1, level |-> -1, limit |-> -1]

\* the operator replaces the configuration
SetCompression(c) ==
    /\ ~crashed
    /\ c # cfg
    /\ Len(cfgHist) <= MaxUpdates
    /\ cfg' = c
    /\ cfgHist' = Append(cfgHist, c)
    /\ UNCHANGED <<clientVars, coverageVars>>
    /\ UNCHANGED <<ndebug, crashed, codecVars, adapterVars>>

-----------------------------------------------------------------------------
(* The envelope codec *)

\* the three getter calls of get_compression_config, given what they returned
get_compression_config(streamer) ==
    CompressionConfig(streamer.type, streamer.level, CompressionThreshold,
                      streamer.limit)

\* encode_message with a slip: it writes the configured algorithm, not the
\* one compress returned
encode_message_configured_type(t, src, conf, dst) ==
    LET output == SerializeAsString(t, src)
        compressed == compress(conf, output)
    IN  AddData(AddInt32(AddInt8(dst, conf.type), Len(output)),
                compressed.data)

\* encode_message with a slip: it declares the length of the payload
encode_message_payload_size(t, src, conf, dst) ==
    LET output == SerializeAsString(t, src)
        compressed == compress(conf, output)
    IN  AddData(AddInt32(AddInt8(dst, compressed.type),
                         Len(compressed.data)),
                compressed.data)

encode_message(t, src, conf, dst) ==
    LET output == SerializeAsString(t, src)
        compressed == compress(conf, output)
    IN  AddData(AddInt32(AddInt8(dst, compressed.type), Len(output)),
                compressed.data)

\* [status, msg]: status is "ok" (returns true), "fail" (returns false) or
\* "abort" (the assert fails in a build that keeps asserts)
decode_message(src, t, nd) ==
    LET encoding == src[1].v
        uncompressed_size == src[2].v
        blob == src[3].v
        uncompressed == decompress(toType(encoding), uncompressed_size, blob)
        parsed == ParseFromArray(t, uncompressed)
    IN  IF uncompressed_size # Len(uncompressed) /\ ~nd
        THEN [status |-> "abort", msg |-> <<>>]
        ELSE [status |-> IF parsed.ok THEN "ok" ELSE "fail",
              msg |-> parsed.msg]

BIX == <<"b", "i", "x">>

NoDec == [ran |-> FALSE, status |-> "none", msg |-> <<>>]
NoCli == [ran |-> FALSE, attempted |-> FALSE, result |-> FALSE, msg |-> <<>>]
IdleEnc == [pc |-> "idle", type |-> "none", msg |-> <<>>, snap |-> Unread,
            startVer |-> 0]

\* encode_message up to the call of get_compression_config: a fresh
\* FRT_Values to fill, the message to send
encode_begin(t, m) ==
    /\ ~crashed
    /\ enc.pc = "idle"
    /\ enc' = [pc |-> "reading", type |-> t, msg |-> m, snap |-> Unread,
               startVer |-> Len(cfgHist)]
    /\ wire' = <<>>
    /\ tampered' = FALSE
    /\ dec' = NoDec
    /\ cli' = NoCli
    /\ UNCHANGED <<clientVars, coverageVars>>
    /\ UNCHANGED <<cfg, cfgHist, ndebug, crashed, adapterVars>>

\* one of the three getter calls on the streamer; their order is the
\* compiler's choice
get_compression_config_read(f) ==
    /\ ~crashed
    /\ enc.pc = "reading"
    /\ enc.snap[f] = Unread[f]
    /\ enc' = [enc EXCEPT !.snap[f] = cfg[f]]
    /\ UNCHANGED <<clientVars, coverageVars>>
    /\ UNCHANGED <<cfg, cfgHist, ndebug, crashed, wire, tampered, dec, cli,
                   adapterVars>>

\* the rest of encode_message: compress and append the three values
encode_end ==
    /\ ~crashed
    /\ enc.pc = "reading"
    /\ \A f \in ConfigFields : enc.snap[f] # Unread[f]
    /\ wire' = encode_message(enc.type, enc.msg,
                              get_compression_config(enc.snap), <<>>)
    /\ enc' = [enc EXCEPT !.pc = "done"]
    /\ UNCHANGED <<clientVars, coverageVars>>
    /\ UNCHANGED <<cfg, cfgHist, ndebug, crashed, tampered, dec, cli,
                   adapterVars>>

\* what a faulty or hostile peer does to the values in transit
Tampered(values, how) ==
    CASE how = "size" -> [values EXCEPT ![2].v = @ + 1]
      [] how = "truncate" ->
             [values EXCEPT ![3].v = SubSeq(@, 1, Len(@) - 1)]
      [] how = "garbage" -> [values EXCEPT ![3].v = <<9>> \o @]
      [] how = "overwrite" -> [values EXCEPT ![3].v = <<9>> \o Tail(@)]
      [] how = "encoding" ->
             [values EXCEPT ![1].v = IF @ = LZ4 THEN NONE ELSE LZ4]
      [] how = "shape" -> [values EXCEPT ![3] = [t |-> "l", v |-> <<>>]]

TamperKinds ==
    {"size", "truncate", "garbage", "overwrite", "encoding", "shape"}

Tamper(how) ==
    /\ ~crashed
    /\ enc.pc = "done"
    /\ ~tampered
    /\ ~dec.ran /\ ~cli.ran
    /\ how \in {"truncate", "overwrite"} => wire[3].v # <<>>
    /\ wire' = Tampered(wire, how)
    /\ tampered' = TRUE
    /\ UNCHANGED <<clientVars, coverageVars>>
    /\ UNCHANGED <<cfg, cfgHist, ndebug, crashed, enc, dec, cli, adapterVars>>

\* decode_message on the parameters of a call (the transport delivers a call
\* only when its parameters have the declared types)
decode_request ==
    /\ ~crashed
    /\ enc.pc = "done"
    /\ enc.type \in RequestTypes
    /\ ~dec.ran
    /\ CheckReturnTypes(wire, BIX)
    /\ LET out == decode_message(wire, enc.type, ndebug)
       IN  /\ dec' = [ran |-> TRUE, status |-> out.status, msg |-> out.msg]
           /\ crashed' = (out.status = "abort")
    /\ UNCHANGED <<clientVars, coverageVars>>
    /\ UNCHANGED <<cfg, cfgHist, ndebug, enc, wire, tampered, cli,
                   adapterVars>>

\* decode_X_reply with a slip: it decodes before it looks at the shape
decode_reply_eager(src, t, nd) ==
    LET out == decode_message(src, t, nd)
    IN  [attempted |-> TRUE,
         status |-> IF CheckReturnTypes(src, BIX) THEN out.status ELSE "fail",
         msg |-> out.msg]

\* decode_search_reply, decode_docsum_reply and decode_monitor_reply share
\* one body: [attempted, status, msg]
decode_reply(src, t, nd) ==
    IF CheckReturnTypes(src, BIX)
    THEN LET out == decode_message(src, t, nd)
         IN  [attempted |-> TRUE, status |-> out.status, msg |-> out.msg]
    ELSE [attempted |-> FALSE, status |-> "fail", msg |-> <<>>]

ClientDecode(t) ==
    /\ ~crashed
    /\ enc.pc = "done"
    /\ enc.type = t
    /\ ~cli.ran
    /\ LET r == decode_reply(wire, t, ndebug)
       IN  /\ cli' = [ran |-> TRUE, attempted |-> r.attempted,
                      result |-> (r.status = "ok"), msg |-> r.msg]
           /\ dec' = IF r.attempted
                     THEN [ran |-> TRUE, status |-> r.status, msg |-> r.msg]
                     ELSE dec
           /\ crashed' = (r.status = "abort")
    /\ UNCHANGED <<clientVars, coverageVars>>
    /\ UNCHANGED <<cfg, cfgHist, ndebug, enc, wire, tampered, adapterVars>>

decode_search_reply == ClientDecode("SearchReply")
decode_docsum_reply == ClientDecode("DocsumReply")
decode_monitor_reply == ClientDecode("MonitorReply")

-----------------------------------------------------------------------------
(* FRT_RPCRequest, RelativeTime, ProtoConverter, the domain replies *)

CallIds == 1..MaxCalls

FRTE_NO_ERROR == "FRTE_NO_ERROR"
FRTE_RPC_METHOD_FAILED == "FRTE_RPC_METHOD_FAILED"

\* a call object the transport has not used yet
FreeCall ==
    [method |-> "none", params |-> <<>>, detached |-> FALSE,
     handler |-> FALSE, ret |-> <<>>, errorCode |-> FRTE_NO_ERROR,
     errorMessage |-> "", returned |-> 0, log |-> <<>>, reply |-> "unset",
     dispatchedAt |-> -1, decodedAt |-> -1]

Logged(req, events) == [req EXCEPT !.log = @ \o events]

Detach(req) == Logged([req EXCEPT !.detached = TRUE], <<"Detach">>)

SetError(req, code, message) ==
    Logged([req EXCEPT !.errorCode = code, !.errorMessage = message],
           <<"SetError">>)

\* Return hands the call back to the transport
Return(req) == Logged([req EXCEPT !.returned = @ + 1], <<"Return">>)

\* a RelativeTime takes its start from the clock when it is constructed
RelativeTime(clock) == [start |-> clock]
NoClock == [start |-> -1]

NotAsked == [kind |-> "notasked"]
NullRequest == [kind |-> "null"]
Request(relative_time, fields) ==
    [kind |-> "request", relative_time |-> relative_time, fields |-> fields]

\* wire values to internal values, and back
search_request_from_proto(msg) == [i \in DOMAIN msg |-> msg[i] + 10]
docsum_request_from_proto(msg) == [i \in DOMAIN msg |-> msg[i] + 20]
monitor_request_from_proto(msg) == [i \in DOMAIN msg |-> msg[i] + 30]
search_reply_to_proto(reply) == [i \in DOMAIN reply |-> reply[i] - 10]
docsum_reply_to_proto(reply) == [i \in DOMAIN reply |-> reply[i] - 20]
monitor_reply_to_proto(reply) == [i \in DOMAIN reply |-> reply[i] - 30]

Methods == {"search", "getDocsums", "ping"}

RequestType(method) ==
    CASE method = "search" -> "SearchRequest"
      [] method = "getDocsums" -> "DocsumRequest"
      [] method = "ping" -> "MonitorRequest"

ReplyBase(method) ==
    CASE method = "search" -> 10
      [] method = "getDocsums" -> 20
      [] method = "ping" -> 30

\* the reply of a server that could not or would not read the request, and
\* the reply of one that did
FailedReply(method) == <<ReplyBase(method) + 2>>
GoodReply(method) == <<ReplyBase(method) + 1, ReplyBase(method) + 1>>
ServerReply(method, request) ==
    IF request.kind = "request" THEN GoodReply(method)
    ELSE FailedReply(method)

Null == <<0>>

\* the message a call carries, and the parameters calls arrive with: the
\* envelope a client encodes, the same with a wrong declared size, the same
\* with the first byte of the payload overwritten
CallMessage == <<1, 2>>
CallParams(method) ==
    LET good == encode_message(RequestType(method), CallMessage,
                               get_compression_config(DefaultConfig), <<>>)
    IN  {good, Tampered(good, "size"), Tampered(good, "overwrite")}

\* the parameters the calls of each method arrive with
SearchParams == CallParams("search")
DocsumParams == CallParams("getDocsums")
PingParams == CallParams("ping")

\* the declared size of an envelope is the length its payload decompresses to
SizeMatches(values) ==
    values[2].v =
        Len(decompress(toType(values[1].v), values[2].v, values[3].v))

\* those of the parameters that declare their size rightly
SizedSearchParams == {params \in SearchParams : SizeMatches(params)}
SizedDocsumParams == {params \in DocsumParams : SizeMatches(params)}
SizedPingParams == {params \in PingParams : SizeMatches(params)}

\* how the domain server answers an invocation: with a reply from the
\* invocation itself, or with null and the handler invoked later
ContractModes == {"sync", "async"}
\* the same, and a server that breaks the contract: it may invoke the handler
\* from inside the invocation and it returns a reply as well
ServerModes == ContractModes \cup {"both"}

NoDecoder == [state |-> "none", relative_time |-> NoClock]

NoSrv ==
    [mode |-> "none", decoder |-> NoDecoder, request |-> NotAsked,
     completed |-> FALSE]

-----------------------------------------------------------------------------
(* Request decoders *)

\* the decoder object: [state, relative_time]; the constructor takes the clock
SearchRequestDecoder(clock) ==
    [state |-> "fresh", relative_time |-> RelativeTime(clock)]
DocsumRequestDecoder(clock) ==
    [state |-> "fresh", relative_time |-> RelativeTime(clock)]

\* decode() with a slip: a request is built although decode_message failed
SearchRequestDecoder_decode_unchecked(decoder, params, clock, nd) ==
    LET out == decode_message(params, "SearchRequest", nd)
    IN  [status |-> out.status,
         request |-> Request(decoder.relative_time,
                             search_request_from_proto(out.msg)),
         decoder |-> [state |-> "used", relative_time |-> NoClock]]

\* decode() with a slip: the clock is taken when decode() runs
DocsumRequestDecoder_decode_fresh_clock(decoder, params, clock, nd) ==
    LET out == decode_message(params, "DocsumRequest", nd)
    IN  IF out.status = "ok"
        THEN [status |-> "ok",
              request |-> Request(RelativeTime(clock),
                                  docsum_request_from_proto(out.msg)),
              decoder |-> [state |-> "used", relative_time |-> NoClock]]
        ELSE [status |-> out.status,
              request |-> NullRequest,
              decoder |-> [decoder EXCEPT !.state = "used"]]

\* decode(): [status, request, decoder]; the decoder's relative_time is moved
\* into the request. clock is the time decode() runs at, which it does not read
SearchRequestDecoder_decode(decoder, params, clock, nd) ==
    LET out == decode_message(params, "SearchRequest", nd)
    IN  IF out.status = "ok"
        THEN [status |-> "ok",
              request |-> Request(decoder.relative_time,
                                  search_request_from_proto(out.msg)),
              decoder |-> [state |-> "used", relative_time |-> NoClock]]
        ELSE [status |-> out.status,
              request |-> NullRequest,
              decoder |-> [decoder EXCEPT !.state = "used"]]

DocsumRequestDecoder_decode(decoder, params, clock, nd) ==
    LET out == decode_message(params, "DocsumRequest", nd)
    IN  IF out.status = "ok"
        THEN [status |-> "ok",
              request |-> Request(decoder.relative_time,
                                  docsum_request_from_proto(out.msg)),
              decoder |-> [state |-> "used", relative_time |-> NoClock]]
        ELSE [status |-> out.status,
              request |-> NullRequest,
              decoder |-> [decoder EXCEPT !.state = "used"]]

-----------------------------------------------------------------------------
(* Completion handlers *)

searchDone(req, reply, streamer) ==
    Return(Logged([req EXCEPT !.ret =
                       encode_message("SearchReply",
                                      search_reply_to_proto(reply),
                                      get_compression_config(streamer), @)],
                  <<"searchDone", "Encode">>))

getDocsumsDone(req, reply, streamer) ==
    Return(Logged([req EXCEPT !.ret =
                       encode_message("DocsumReply",
                                      docsum_reply_to_proto(reply),
                                      get_compression_config(streamer), @)],
                  <<"getDocsumsDone", "Encode">>))

\* pingDone with a slip: the call is Returned before the reply is written
pingDone_returns_first(req, reply, streamer) ==
    Logged([Return(Logged(req, <<"pingDone">>)) EXCEPT !.ret =
                encode_message("MonitorReply",
                               monitor_reply_to_proto(reply),
                               get_compression_config(streamer), @)],
           <<"Encode">>)

pingDone(req, reply, streamer) ==
    Return(Logged([req EXCEPT !.ret =
                       encode_message("MonitorReply",
                                      monitor_reply_to_proto(reply),
                                      get_compression_config(streamer), @)],
                  <<"pingDone", "Encode">>))

\* the handler the stash of a call holds, applied
Done(req, reply, streamer) ==
    CASE req.method = "search" -> searchDone(req, reply, streamer)
      [] req.method = "getDocsums" -> getDocsumsDone(req, reply, streamer)
      [] req.method = "ping" -> pingDone(req, reply, streamer)

DoneEvents == {"searchDone", "getDocsumsDone", "pingDone"}

\* the entry of the handler of a method
DoneEvent(method) ==
    CASE method = "search" -> "searchDone"
      [] method = "getDocsums" -> "getDocsumsDone"
      [] method = "ping" -> "pingDone"

-----------------------------------------------------------------------------
(* The dispatcher: rpc_search, rpc_getDocsums, rpc_ping *)

\* call ids are given in the order the calls arrive
ArrivalOrder(c) == IF c = 1 THEN TRUE ELSE disp[c - 1] # "idle"

Arrived(method, params, clock) ==
    [FreeCall EXCEPT !.method = method, !.params = params,
                     !.dispatchedAt = clock]

\* rpc_search with a slip: the dispatcher decodes the request itself before
\* it invokes the server
rpc_search_eager(c, params, mode) ==
    /\ ~crashed
    /\ disp[c] = "idle"
    /\ ArrivalOrder(c)
    /\ rpc' = [rpc EXCEPT ![c] =
                  Logged([Detach(Arrived("search", params, now))
                              EXCEPT !.handler = TRUE, !.decodedAt = now],
                         <<"CreateHandler", "CreateDecoder", "Decode",
                           "InvokeServer">>)]
    /\ srv' = [srv EXCEPT ![c] =
                  [mode |-> mode, decoder |-> SearchRequestDecoder(now),
                   request |-> NotAsked, completed |-> FALSE]]
    /\ disp' = [disp EXCEPT ![c] = "running"]
    /\ UNCHANGED <<clientVars, coverageVars>>
    /\ UNCHANGED <<cfg, cfgHist, ndebug, crashed, codecVars, now>>

\* rpc_search up to the invocation of the search server
rpc_search(c, params, mode) ==
    /\ ~crashed
    /\ disp[c] = "idle"
    /\ ArrivalOrder(c)
    /\ rpc' = [rpc EXCEPT ![c] =
                  Logged([Detach(Arrived("search", params, now))
                              EXCEPT !.handler = TRUE],
                         <<"CreateHandler", "CreateDecoder",
                           "InvokeServer">>)]
    /\ srv' = [srv EXCEPT ![c] =
                  [mode |-> mode, decoder |-> SearchRequestDecoder(now),
                   request |-> NotAsked, completed |-> FALSE]]
    /\ disp' = [disp EXCEPT ![c] = "running"]
    /\ UNCHANGED <<clientVars, coverageVars>>
    /\ UNCHANGED <<cfg, cfgHist, ndebug, crashed, codecVars, now>>

\* rpc_getDocsums up to the invocation of the docsum server
rpc_getDocsums(c, params, mode) ==
    /\ ~crashed
    /\ disp[c] = "idle"
    /\ ArrivalOrder(c)
    /\ rpc' = [rpc EXCEPT ![c] =
                  Logged([Detach(Arrived("getDocsums", params, now))
                              EXCEPT !.handler = TRUE],
                         <<"CreateHandler", "CreateDecoder",
                           "InvokeServer">>)]
    /\ srv' = [srv EXCEPT ![c] =
                  [mode |-> mode, decoder |-> DocsumRequestDecoder(now),
                   request |-> NotAsked, completed |-> FALSE]]
    /\ disp' = [disp EXCEPT ![c] = "running"]
    /\ UNCHANGED <<clientVars, coverageVars>>
    /\ UNCHANGED <<cfg, cfgHist, ndebug, crashed, codecVars, now>>

\* rpc_ping with a slip: a request that does not decode is handed to the
\* monitor server like one that does
rpc_ping_begin_delegates(params, mode, clock, nd) ==
    LET out == decode_message(params, "MonitorRequest", nd)
        base == Logged([Detach(Arrived("ping", params, clock))
                            EXCEPT !.decodedAt = clock], <<"Decode">>)
    IN  IF out.status = "abort"
        THEN [req |-> base, srv |-> NoSrv, pc |-> "running",
              crashed |-> TRUE]
        ELSE [req |-> Logged([base EXCEPT !.handler = TRUE],
                             <<"CreateHandler", "InvokeServer">>),
              srv |-> [mode |-> mode, decoder |-> NoDecoder,
                       request |->
                           Request(NoClock,
                                   monitor_request_from_proto(out.msg)),
                       completed |-> FALSE],
              pc |-> "running", crashed |-> FALSE]

\* rpc_ping with a slip: the monitor server is invoked before the request is
\* decoded
rpc_ping_begin_invokes_first(params, mode, clock, nd) ==
    LET out == decode_message(params, "MonitorRequest", nd)
        base == [Detach(Arrived("ping", params, clock))
                     EXCEPT !.decodedAt = clock]
    IN  CASE out.status = "abort" ->
                 [req |-> Logged(base, <<"Decode">>), srv |-> NoSrv,
                  pc |-> "running", crashed |-> TRUE]
          [] out.status = "ok" ->
                 [req |-> Logged([base EXCEPT !.handler = TRUE],
                                 <<"CreateHandler", "InvokeServer",
                                   "Decode">>),
                  srv |-> [mode |-> mode, decoder |-> NoDecoder,
                           request |->
                               Request(NoClock,
                                       monitor_request_from_proto(out.msg)),
                           completed |-> FALSE],
                  pc |-> "running", crashed |-> FALSE]
          [] out.status = "fail" ->
                 [req |-> Return(SetError(Logged(base, <<"Decode">>),
                                          FRTE_RPC_METHOD_FAILED,
                                          "malformed monitor request")),
                  srv |-> NoSrv, pc |-> "done", crashed |-> FALSE]

\* rpc_ping up to the invocation of the monitor server, or to its end when
\* the request does not decode: [req, srv, pc, crashed]
rpc_ping_begin(params, mode, clock, nd) ==
    LET out == decode_message(params, "MonitorRequest", nd)
        base == Logged([Detach(Arrived("ping", params, clock))
                            EXCEPT !.decodedAt = clock], <<"Decode">>)
    IN  CASE out.status = "abort" ->
                 [req |-> base, srv |-> NoSrv, pc |-> "running",
                  crashed |-> TRUE]
          [] out.status = "ok" ->
                 [req |-> Logged([base EXCEPT !.handler = TRUE],
                                 <<"CreateHandler", "InvokeServer">>),
                  srv |-> [mode |-> mode, decoder |-> NoDecoder,
                           request |->
                               Request(NoClock,
                                       monitor_request_from_proto(out.msg)),
                           completed |-> FALSE],
                  pc |-> "running", crashed |-> FALSE]
          [] out.status = "fail" ->
                 [req |-> Return(SetError(base, FRTE_RPC_METHOD_FAILED,
                                          "malformed monitor request")),
                  srv |-> NoSrv, pc |-> "done", crashed |-> FALSE]

rpc_ping(c, params, mode) ==
    /\ ~crashed
    /\ disp[c] = "idle"
    /\ ArrivalOrder(c)
    /\ LET r == rpc_ping_begin(params, mode, now, ndebug)
       IN  /\ rpc' = [rpc EXCEPT ![c] = r.req]
           /\ srv' = [srv EXCEPT ![c] = r.srv]
           /\ disp' = [disp EXCEPT ![c] = r.pc]
           /\ crashed' = r.crashed
    /\ UNCHANGED <<clientVars, coverageVars>>
    /\ UNCHANGED <<cfg, cfgHist, ndebug, codecVars, now>>

\* what the server's invocation returns: a reply in the modes that answer
\* from the invocation, null otherwise
Returned(c) ==
    IF srv[c].mode \in {"sync", "both"}
    THEN ServerReply(rpc[c].method, srv[c].request)
    ELSE Null

\* rpc_search with a slip: the handler is invoked whatever was returned
rpc_search_end_unconditional(req, reply, streamer) ==
    searchDone(Logged(req, <<"Inline">>), reply, streamer)

\* rpc_getDocsums with a slip: the test of the reply is inverted
rpc_getDocsums_end_inverted(req, reply, streamer) ==
    IF reply = Null
    THEN getDocsumsDone(Logged(req, <<"Inline">>), reply, streamer)
    ELSE req

\* rpc_getDocsums with a slip: after a null reply it still reads the call
rpc_getDocsums_end_touches(req, reply, streamer) ==
    IF reply # Null
    THEN getDocsumsDone(Logged(req, <<"Inline">>), reply, streamer)
    ELSE Logged(req, <<"GetReturn">>)

\* rpc_ping with a slip: the handler is invoked whatever was returned
rpc_ping_end_always(req, reply, streamer) ==
    pingDone(Logged(req, <<"Inline">>), reply, streamer)

\* the rest of rpc_search, rpc_getDocsums and rpc_ping once the server's
\* invocation has returned reply
rpc_search_end(req, reply, streamer) ==
    IF reply # Null
    THEN searchDone(Logged(req, <<"Inline">>), reply, streamer)
    ELSE req

rpc_getDocsums_end(req, reply, streamer) ==
    IF reply # Null
    THEN getDocsumsDone(Logged(req, <<"Inline">>), reply, streamer)
    ELSE req

rpc_ping_end(req, reply, streamer) ==
    IF reply # Null
    THEN pingDone(Logged(req, <<"Inline">>), reply, streamer)
    ELSE req

\* history: what the server's invocation returned to rpc_X
ServerReturned(req, reply) ==
    [req EXCEPT !.reply = IF reply = Null THEN "null" ELSE "nonnull"]

\* the reply is not null and the call was already Returned by the server's
\* own completion: the handler the adapter now invokes, and the call it
\* writes to, may have been released with the call
UsesFinalizedCall(c) == Returned(c) # Null /\ rpc[c].returned >= 1

\* what rpc_X leaves of call c, done being what its code does to a call in
\* flight: on a finalized call the behaviour is undefined, and the build
\* either performs the same writes or the process dies in the handler
ReturnOutcomes(c, done) ==
    IF UsesFinalizedCall(c)
    THEN {[req |-> done, crashed |-> FALSE],
          [req |-> Logged(ServerReturned(rpc[c], Returned(c)),
                          <<"Inline", DoneEvent(rpc[c].method)>>),
           crashed |-> TRUE]}
    ELSE {[req |-> done, crashed |-> crashed]}

\* rpc_search with a slip: the call being completed is kept in one place
\* that all calls share
rpc_search_return_shared(c) ==
    /\ ~crashed
    /\ disp[c] = "running"
    /\ rpc[c].method = "search"
    /\ rpc' = [rpc EXCEPT ![1] =
                  rpc_search_end(ServerReturned(rpc[c], Returned(c)),
                                 Returned(c), cfg)]
    /\ disp' = [disp EXCEPT ![c] = "done"]
    /\ UNCHANGED <<clientVars, coverageVars>>
    /\ UNCHANGED <<cfg, cfgHist, ndebug, crashed, codecVars, srv, now>>

rpc_search_return(c) ==
    /\ ~crashed
    /\ disp[c] = "running"
    /\ rpc[c].method = "search"
    /\ \E o \in ReturnOutcomes(c,
                   rpc_search_end(ServerReturned(rpc[c], Returned(c)),
                       Returned(c), cfg)) :
           /\ rpc' = [rpc EXCEPT ![c] = o.req]
           /\ crashed' = o.crashed
    /\ disp' = [disp EXCEPT ![c] = "done"]
    /\ UNCHANGED <<clientVars, coverageVars>>
    /\ UNCHANGED <<cfg, cfgHist, ndebug, codecVars, srv, now>>

rpc_getDocsums_return(c) ==
    /\ ~crashed
    /\ disp[c] = "running"
    /\ rpc[c].method = "getDocsums"
    /\ \E o \in ReturnOutcomes(c,
                   rpc_getDocsums_end(ServerReturned(rpc[c], Returned(c)),
                       Returned(c), cfg)) :
           /\ rpc' = [rpc EXCEPT ![c] = o.req]
           /\ crashed' = o.crashed
    /\ disp' = [disp EXCEPT ![c] = "done"]
    /\ UNCHANGED <<clientVars, coverageVars>>
    /\ UNCHANGED <<cfg, cfgHist, ndebug, codecVars, srv, now>>

rpc_ping_return(c) ==
    /\ ~crashed
    /\ disp[c] = "running"
    /\ rpc[c].method = "ping"
    /\ \E o \in ReturnOutcomes(c,
                   rpc_ping_end(ServerReturned(rpc[c], Returned(c)),
                       Returned(c), cfg)) :
           /\ rpc' = [rpc EXCEPT ![c] = o.req]
           /\ crashed' = o.crashed
    /\ disp' = [disp EXCEPT ![c] = "done"]
    /\ UNCHANGED <<clientVars, coverageVars>>
    /\ UNCHANGED <<cfg, cfgHist, ndebug, codecVars, srv, now>>

-----------------------------------------------------------------------------
(* The domain servers *)

\* the server still owes the call its answer
ServerActive(c) ==
    \/ srv[c].mode \in {"sync", "both"} /\ disp[c] = "running"
    \/ srv[c].mode = "async" /\ ~srv[c].completed

Decode(method, decoder, params, clock, nd) ==
    IF method = "search"
    THEN SearchRequestDecoder_decode(decoder, params, clock, nd)
    ELSE DocsumRequestDecoder_decode(decoder, params, clock, nd)

\* the server asks the decoder it was given for the request; it may do so
\* inside the invocation or, having deferred the call, later
Server_decode(c) ==
    /\ ~crashed
    /\ rpc[c].method \in {"search", "getDocsums"}
    /\ srv[c].decoder.state = "fresh"
    /\ ServerActive(c)
    /\ LET r == Decode(rpc[c].method, srv[c].decoder, rpc[c].params, now,
                       ndebug)
       IN  /\ srv' = [srv EXCEPT ![c].decoder = r.decoder,
                                 ![c].request = r.request]
           /\ crashed' = (r.status = "abort")
    /\ rpc' = [rpc EXCEPT ![c] =
                  Logged([@ EXCEPT !.decodedAt = now], <<"Decode">>)]
    /\ UNCHANGED <<clientVars, coverageVars>>
    /\ UNCHANGED <<cfg, cfgHist, ndebug, codecVars, disp, now>>

\* the server's own completion path invokes the handler of a deferred call;
\* the server that breaks the contract does so before its invocation returns
Server_complete(c) ==
    /\ ~crashed
    /\ \/ srv[c].mode = "async"
       \/ srv[c].mode = "both" /\ disp[c] = "running"
    /\ ~srv[c].completed
    /\ rpc' = [rpc EXCEPT ![c] =
                  Done(Logged(@, <<"Deferred">>),
                       ServerReply(rpc[c].method, srv[c].request), cfg)]
    /\ srv' = [srv EXCEPT ![c].completed = TRUE]
    /\ UNCHANGED <<clientVars, coverageVars>>
    /\ UNCHANGED <<cfg, cfgHist, ndebug, crashed, codecVars, disp, now>>

Tick ==
    /\ ~crashed
    /\ now < MaxTime
    /\ now' = now + 1
    /\ UNCHANGED <<clientVars, coverageVars>>
    /\ UNCHANGED <<cfg, cfgHist, ndebug, crashed, codecVars, rpc, disp, srv>>

-----------------------------------------------------------------------------
(* Method registration and the client side encoders *)

\* FRT_ReflectionBuilder::DefineMethod
DefineMethod(methods, name, paramSpec, returnSpec, handler) ==
    Append(methods, [name |-> name, params |-> paramSpec,
                     ret |-> returnSpec, handler |-> handler])

\* the constructor of the adapter: the methods it defines on the supervisor
ProtoRpcAdapter(methods) ==
    DefineMethod(
        DefineMethod(
            DefineMethod(methods, "vespa.searchprotocol.search", BIX, BIX,
                         "rpc_search"),
            "vespa.searchprotocol.getDocsums", BIX, BIX, "rpc_getDocsums"),
        "vespa.searchprotocol.ping", BIX, BIX, "rpc_ping")

\* an outbound call nobody has filled in; kind and msg are history
NoOut == [methodName |-> "", params |-> <<>>, kind |-> "none", msg |-> <<>>]

SetMethodName(req, name) == [req EXCEPT !.methodName = name]

encode_search_request(src, dst, streamer) ==
    [SetMethodName(dst, "vespa.searchprotocol.search") EXCEPT !.params =
         encode_message("SearchRequest", src,
                        get_compression_config(streamer), @)]

encode_docsum_request(src, dst, streamer) ==
    [SetMethodName(dst, "vespa.searchprotocol.getDocsums") EXCEPT !.params =
         encode_message("DocsumRequest", src,
                        get_compression_config(streamer), @)]

\* encode_monitor_request with a slip: the name of another method was pasted
encode_monitor_request_pasted_name(src, dst, streamer) ==
    [SetMethodName(dst, "vespa.searchprotocol.search") EXCEPT !.params =
         encode_message("MonitorRequest", src,
                        get_compression_config(streamer), @)]

encode_monitor_request(src, dst, streamer) ==
    [SetMethodName(dst, "vespa.searchprotocol.ping") EXCEPT !.params =
         encode_message("MonitorRequest", src,
                        get_compression_config(streamer), @)]

encode_request(kind, src, dst, streamer) ==
    CASE kind = "search" -> encode_search_request(src, dst, streamer)
      [] kind = "getDocsums" -> encode_docsum_request(src, dst, streamer)
      [] kind = "ping" -> encode_monitor_request(src, dst, streamer)

\* a client fills in an outbound call of one kind
Client_encode(kind, m) ==
    /\ ~crashed
    /\ outbound = NoOut
    /\ outbound' = [encode_request(kind, m, NoOut, cfg)
                   EXCEPT !.kind = kind, !.msg = m]
    /\ UNCHANGED <<cfg, cfgHist, ndebug, crashed, codecVars, adapterVars,
                   orb, coverageVars>>

Client_encode_search(m) == Client_encode("search", m)
Client_encode_docsum(m) == Client_encode("getDocsums", m)
Client_encode_monitor(m) == Client_encode("ping", m)

\* the methods a name resolves to
Lookup(methods, name) == {i \in DOMAIN methods : methods[i].name = name}

\* the transport delivers the client's call: it resolves the method name,
\* checks the parameters against the method's parameter types and invokes
\* the function the method was defined with
Transport_invoke(c, mode) ==
    /\ outbound.kind # "none"
    /\ \E i \in Lookup(orb, outbound.methodName) :
           /\ CheckReturnTypes(outbound.params, orb[i].params)
           /\ \/ /\ orb[i].handler = "rpc_search"
                 /\ rpc_search(c, outbound.params, mode)
              \/ /\ orb[i].handler = "rpc_getDocsums"
                 /\ rpc_getDocsums(c, outbound.params, mode)
              \/ /\ orb[i].handler = "rpc_ping"
                 /\ rpc_ping(c, outbound.params, mode)

\* the supervisor after the adapter was constructed, and no outbound call
ClientIdle ==
    /\ orb = ProtoRpcAdapter(<<>>)
    /\ outbound = NoOut

-----------------------------------------------------------------------------
(* SearchReply::Coverage *)

\* enum DegradeReason
MATCH_PHASE == 1
TIMEOUT == 2
ADAPTIVE_TIMEOUT == 4

DegradeReasons == {MATCH_PHASE, TIMEOUT, ADAPTIVE_TIMEOUT}

\* the document and node counts, and the bitmasks, callers pass
Counts == 0..MaxCount
Masks == 0..(MATCH_PHASE + TIMEOUT + ADAPTIVE_TIMEOUT)

\* mask & bit, mask | bit, for a bit of the enum
HasBit(mask, bit) == (mask \div bit) % 2 = 1
BitOr(mask, bit) == IF HasBit(mask, bit) THEN mask ELSE mask + bit

\* the three constructors: Coverage(active, covered), Coverage(active) and
\* Coverage()
Coverage2(active, covered) ==
    [covered |-> covered, active |-> active, soonActive |-> active,
     degradeReason |-> 0, nodesQueried |-> 1, nodesReplied |-> 1]

\* Coverage(active) with a slip: the arguments of the delegation are swapped
Coverage1_swapped(active) == Coverage2(0, active)

Coverage1(active) == Coverage2(active, active)

Coverage0 == Coverage1(0)

\* the 64 and 32 bit fields are far wider than the values of the model; the
\* node counts are uint16_t
setCovered(c, v) == [c EXCEPT !.covered = v]
setActive(c, v) == [c EXCEPT !.active = v]
setSoonActive(c, v) == [c EXCEPT !.soonActive = v]
setDegradeReason(c, v) == [c EXCEPT !.degradeReason = v]
setNodesQueried(c, v) == [c EXCEPT !.nodesQueried = v % 65536]
setNodesReplied(c, v) == [c EXCEPT !.nodesReplied = v % 65536]

degradeMatchPhase(c) ==
    [c EXCEPT !.degradeReason = BitOr(@, MATCH_PHASE)]

\* degradeTimeout with a slip: = where |= was meant
degradeTimeout_assigns(c) == [c EXCEPT !.degradeReason = TIMEOUT]

degradeTimeout(c) ==
    [c EXCEPT !.degradeReason = BitOr(@, TIMEOUT)]

degradeAdaptiveTimeout(c) ==
    [c EXCEPT !.degradeReason = BitOr(@, ADAPTIVE_TIMEOUT)]

wasDegradedByMatchPhase(c) == HasBit(c.degradeReason, MATCH_PHASE)
wasDegradedByTimeout(c) == HasBit(c.degradeReason, TIMEOUT)

Constructors == {"Coverage0", "Coverage1", "Coverage2"}
DegradeOps ==
    {"degradeMatchPhase", "degradeTimeout", "degradeAdaptiveTimeout"}

\* the operation a caller performed and the arguments it passed
Op(name, arg, arg2) == [name |-> name, arg |-> arg, arg2 |-> arg2]

\* a caller performs one operation on the record
Apply(name, arg, arg2, result) ==
    /\ coverage' = result
    /\ covOp' = Op(name, arg, arg2)
    /\ UNCHANGED <<cfg, cfgHist, ndebug, crashed, codecVars, adapterVars,
                   clientVars>>

Coverage_assign(active) ==
    Apply("Coverage1", active, 0, Coverage1(active))
Coverage_assign2(active, covered) ==
    Apply("Coverage2", active, covered, Coverage2(active, covered))
Coverage_setCovered(v) ==
    Apply("setCovered", v, 0, setCovered(coverage, v))
Coverage_setActive(v) ==
    Apply("setActive", v, 0, setActive(coverage, v))
Coverage_setSoonActive(v) ==
    Apply("setSoonActive", v, 0, setSoonActive(coverage, v))
Coverage_setDegradeReason(v) ==
    Apply("setDegradeReason", v, 0, setDegradeReason(coverage, v))
Coverage_setNodesQueried(v) ==
    Apply("setNodesQueried", v, 0, setNodesQueried(coverage, v))
Coverage_setNodesReplied(v) ==
    Apply("setNodesReplied", v, 0, setNodesReplied(coverage, v))
Coverage_degradeMatchPhase ==
    Apply("degradeMatchPhase", 0, 0, degradeMatchPhase(coverage))
Coverage_degradeTimeout ==
    Apply("degradeTimeout", 0, 0, degradeTimeout(coverage))
Coverage_degradeAdaptiveTimeout ==
    Apply("degradeAdaptiveTimeout", 0, 0, degradeAdaptiveTimeout(coverage))

\* the Coverage member of a SearchReply that was just constructed
CoverageIdle ==
    /\ coverage = Coverage0
    /\ covOp = Op("Coverage0", 0, 0)

-----------------------------------------------------------------------------
(* Specification of the adapter *)

Init ==
    /\ cfg = DefaultConfig
    /\ cfgHist = <<cfg>>
    /\ ndebug \in BOOLEAN
    /\ crashed = FALSE
    /\ enc = IdleEnc
    /\ wire = <<>>
    /\ tampered = FALSE
    /\ dec = NoDec
    /\ cli = NoCli
    /\ rpc = [c \in CallIds |-> FreeCall]
    /\ disp = [c \in CallIds |-> "idle"]
    /\ srv = [c \in CallIds |-> NoSrv]
    /\ now = 0
    /\ ClientIdle
    /\ CoverageIdle

\* what the transport threads and the servers do for the calls in flight
Serve ==
    \E c \in CallIds :
        \/ rpc_search_return(c)
        \/ rpc_getDocsums_return(c)
        \/ rpc_ping_return(c)
        \/ Server_decode(c)
        \/ Server_complete(c)

\* calls arrive whose envelopes declare their size rightly, intact or with
\* a damaged payload
Next ==
    \/ \E c \in CallIds, mode \in ContractModes :
           \/ \E params \in SizedSearchParams :
                  rpc_search(c, params, mode)
           \/ \E params \in SizedDocsumParams :
                  rpc_getDocsums(c, params, mode)
           \/ \E params \in SizedPingParams :
                  rpc_ping(c, params, mode)
    \/ Serve

Spec == Init /\ [][Next]_vars

\* calls arrive with any of the parameters
NextAny ==
    \/ \E c \in CallIds, mode \in ContractModes :
           \/ \E params \in SearchParams :
                  rpc_search(c, params, mode)
           \/ \E params \in DocsumParams :
                  rpc_getDocsums(c, params, mode)
           \/ \E params \in PingParams :
                  rpc_ping(c, params, mode)
    \/ Serve

\* the adapter serving one call while the clock advances
NextClock ==
    \/ \E mode \in ContractModes :
           \/ \E params \in SearchParams :
                  rpc_search(1, params, mode)
           \/ \E params \in DocsumParams :
                  rpc_getDocsums(1, params, mode)
           \/ \E params \in PingParams :
                  rpc_ping(1, params, mode)
    \/ rpc_search_return(1)
    \/ rpc_getDocsums_return(1)
    \/ rpc_ping_return(1)
    \/ Server_decode(1)
    \/ Server_complete(1)
    \/ Tick

SpecClock == Init /\ [][NextClock]_vars

-----------------------------------------------------------------------------
(* Specifications of the codec *)

AdapterIdle ==
    /\ rpc = [c \in CallIds |-> FreeCall]
    /\ disp = [c \in CallIds |-> "idle"]
    /\ srv = [c \in CallIds |-> NoSrv]
    /\ now = 0

CodecIdle ==
    /\ enc = IdleEnc
    /\ wire = <<>>
    /\ tampered = FALSE
    /\ dec = NoDec
    /\ cli = NoCli

InitCodec ==
    /\ cfg \in ConfigChoices
    /\ cfgHist = <<cfg>>
    /\ ndebug \in BOOLEAN
    /\ crashed = FALSE
    /\ CodecIdle
    /\ AdapterIdle
    /\ ClientIdle
    /\ CoverageIdle

NextCodec ==
    \/ \E t \in MsgTypes, m \in Messages : encode_begin(t, m)
    \/ \E f \in ConfigFields : get_compression_config_read(f)
    \/ encode_end
    \/ \E how \in TamperKinds : Tamper(how)
    \/ decode_request
    \/ decode_search_reply
    \/ decode_docsum_reply
    \/ decode_monitor_reply

SpecCodec == InitCodec /\ [][NextCodec]_vars

\* the messages sent while the operator changes the configuration
ConfigMessages == {[i \in 1..MaxFields |-> v] : v \in FieldValues}

InitConfig ==
    /\ cfg = DefaultConfig
    /\ cfgHist = <<cfg>>
    /\ ndebug \in BOOLEAN
    /\ crashed = FALSE
    /\ CodecIdle
    /\ AdapterIdle
    /\ ClientIdle
    /\ CoverageIdle

NextConfig ==
    \/ \E m \in ConfigMessages : encode_begin("SearchReply", m)
    \/ \E f \in ConfigFields : get_compression_config_read(f)
    \/ encode_end
    \/ \E c \in ConfigChoices : SetCompression(c)

SpecConfig == InitConfig /\ [][NextConfig]_vars

-----------------------------------------------------------------------------
(* Further specifications *)

\* the adapter serving calls under the assumptions that every invocation of
\* a domain server returns and that a server that returned null invokes the
\* handler
Fairness ==
    \A c \in CallIds :
        /\ WF_vars(rpc_search_return(c))
        /\ WF_vars(rpc_getDocsums_return(c))
        /\ WF_vars(rpc_ping_return(c))
        /\ WF_vars(Server_complete(c))

SpecLive == Init /\ [][NextAny]_vars /\ Fairness

\* the adapter serving one call against a domain server that may break the
\* reply-or-defer contract
NextServer ==
    \/ \E mode \in ServerModes :
           \/ \E params \in SearchParams :
                  rpc_search(1, params, mode)
           \/ \E params \in DocsumParams :
                  rpc_getDocsums(1, params, mode)
           \/ \E params \in PingParams :
                  rpc_ping(1, params, mode)
    \/ rpc_search_return(1)
    \/ rpc_getDocsums_return(1)
    \/ rpc_ping_return(1)
    \/ Server_decode(1)
    \/ Server_complete(1)

SpecServer == Init /\ [][NextServer]_vars

\* a client of this process calls the adapter
NextClient ==
    \/ \E m \in Messages :
           \/ Client_encode_search(m)
           \/ Client_encode_docsum(m)
           \/ Client_encode_monitor(m)
    \/ \E mode \in ContractModes : Transport_invoke(1, mode)
    \/ rpc_search_return(1)
    \/ rpc_getDocsums_return(1)
    \/ rpc_ping_return(1)
    \/ Server_decode(1)
    \/ Server_complete(1)

SpecClient == Init /\ [][NextClient]_vars

\* callers building the Coverage of a reply
InitCoverage ==
    /\ cfg = DefaultConfig
    /\ cfgHist = <<cfg>>
    /\ ndebug = TRUE
    /\ crashed = FALSE
    /\ CodecIdle
    /\ AdapterIdle
    /\ ClientIdle
    /\ CoverageIdle

NextCoverage ==
    \/ \E v \in Counts :
           \/ Coverage_assign(v)
           \/ Coverage_setCovered(v)
           \/ Coverage_setActive(v)
           \/ Coverage_setSoonActive(v)
           \/ Coverage_setNodesQueried(v)
           \/ Coverage_setNodesReplied(v)
    \/ \E active, covered \in Counts : Coverage_assign2(active, covered)
    \/ \E v \in Masks : Coverage_setDegradeReason(v)
    \/ Coverage_degradeMatchPhase
    \/ Coverage_degradeTimeout
    \/ Coverage_degradeAdaptiveTimeout

SpecCoverage == InitCoverage /\ [][NextCoverage]_vars

-----------------------------------------------------------------------------
(* Properties of the dispatcher and the handlers *)

Count(log, events) == Cardinality({i \in DOMAIN log : log[i] \in events})
Has(log, event) == \E i \in DOMAIN log : log[i] = event

ServerInvoked(c) == srv[c].mode # "none"

\* rpc_X has returned and the server has nothing left to do for the call
Settled(c) ==
    /\ disp[c] = "done"
    /\ srv[c].mode = "async" => srv[c].completed

\* C1 as stated: for every dispatched call, search, getDocsums or ping, the
\* handler's finalizing operation (searchDone / getDocsumsDone / pingDone)
\* runs exactly once: never twice, and once when the call is settled.
C1_EveryCallFinalizedByHandlerOnce ==
    \A c \in CallIds :
        /\ Count(rpc[c].log, DoneEvents) <= 1
        /\ Settled(c) => Count(rpc[c].log, DoneEvents) = 1

\* C1 amended: for every call on which the domain server is invoked, whether
\* it replies from the invocation or defers, the handler's finalizing
\* operation runs exactly once, and it is what Returns the call; a ping call
\* whose request does not decode is Returned once by the adapter and no
\* handler runs for it.  No call is Returned twice.
C1_ServedCallFinalizedByHandlerOnce ==
    \A c \in CallIds :
        /\ Count(rpc[c].log, DoneEvents) <= 1
        /\ rpc[c].returned <= 1
        /\ ServerInvoked(c) =>
               rpc[c].returned = Count(rpc[c].log, DoneEvents)
        /\ Settled(c) =>
               /\ rpc[c].returned = 1
               /\ Count(rpc[c].log, DoneEvents) =
                      (IF ServerInvoked(c) THEN 1 ELSE 0)

\* two calls are settled, one answered from the invocation, one deferred
C1_Witness ==
    \E c, d \in CallIds :
        /\ Settled(c) /\ srv[c].mode = "sync"
        /\ Settled(d) /\ srv[d].mode = "async"
        /\ Count(rpc[c].log, DoneEvents) = 1
        /\ Count(rpc[d].log, DoneEvents) = 1

\* C2: for every call on which the domain server is invoked, the adapter
\* invokes the handler inline exactly when the invocation returned a reply,
\* never when it returned null and never before it returned; inline and
\* deferred completion never both happen, and a settled call has had
\* exactly one of them.
C2_InlineIffReplyReturned ==
    \A c \in CallIds :
        ServerInvoked(c) =>
            /\ Has(rpc[c].log, "Inline") <=> rpc[c].reply = "nonnull"
            /\ rpc[c].reply = "nonnull" => disp[c] = "done"
            /\ ~(Has(rpc[c].log, "Inline") /\ Has(rpc[c].log, "Deferred"))
            /\ Settled(c) =>
                   Has(rpc[c].log, "Inline") # Has(rpc[c].log, "Deferred")

\* the server returned null, the adapter left the handler alone and the
\* server's own path completed the call
C2_Witness ==
    \E c \in CallIds :
        /\ Settled(c)
        /\ rpc[c].reply = "null"
        /\ ~Has(rpc[c].log, "Inline")
        /\ Has(rpc[c].log, "Deferred")

\* C3: a ping call for which decode_message returns false is answered by the
\* adapter: error FRTE_RPC_METHOD_FAILED with the message "malformed monitor
\* request", Returned once, no return values, no handler, no invocation of
\* the monitor server; and the monitor server is invoked only with the
\* request projected from a message that decoded.
C3_MalformedPingAnsweredByAdapter ==
    \A c \in CallIds :
        rpc[c].method = "ping" =>
            LET out == decode_message(rpc[c].params, "MonitorRequest", ndebug)
            IN  /\ out.status = "fail" =>
                       /\ disp[c] = "done"
                       /\ rpc[c].errorCode = FRTE_RPC_METHOD_FAILED
                       /\ rpc[c].errorMessage = "malformed monitor request"
                       /\ rpc[c].returned = 1
                       /\ rpc[c].ret = <<>>
                       /\ ~rpc[c].handler
                       /\ ~ServerInvoked(c)
                       /\ Count(rpc[c].log, DoneEvents) = 0
                /\ ServerInvoked(c) =>
                       /\ out.status = "ok"
                       /\ rpc[c].errorCode = FRTE_NO_ERROR
                       /\ srv[c].request =
                              Request(NoClock,
                                      monitor_request_from_proto(out.msg))

\* a ping call with a damaged payload has been answered with the error
C3_Witness ==
    \E c \in CallIds :
        /\ rpc[c].method = "ping"
        /\ rpc[c].params \in PingParams
        /\ decode_message(rpc[c].params, "MonitorRequest", ndebug).status
               = "fail"
        /\ rpc[c].errorMessage = "malformed monitor request"
        /\ rpc[c].returned = 1

IsDecoderCall(c) == rpc[c].method \in {"search", "getDocsums"}

FromProto(method, msg) ==
    IF method = "search" THEN search_request_from_proto(msg)
    ELSE docsum_request_from_proto(msg)

\* C4: once decode() of a search or getDocsums call has returned, the
\* request the server holds is null when decode_message returned false and
\* otherwise the complete projection of the parsed message, nothing in
\* between; the adapter sets no error on such a call and Returns it only
\* through its handler.
C4_DecodeGivesNullOrWholeRequest ==
    \A c \in CallIds :
        IsDecoderCall(c) =>
            /\ rpc[c].errorCode = FRTE_NO_ERROR
            /\ ~Has(rpc[c].log, "SetError")
            /\ rpc[c].returned = Count(rpc[c].log, DoneEvents)
            /\ srv[c].decoder.state = "fresh" => srv[c].request = NotAsked
            /\ srv[c].decoder.state = "used" =>
                   LET out == decode_message(rpc[c].params,
                                             RequestType(rpc[c].method),
                                             ndebug)
                   IN  /\ out.status = "fail" =>
                              srv[c].request = NullRequest
                       /\ out.status = "ok" =>
                              /\ srv[c].request.kind = "request"
                              /\ srv[c].request.fields =
                                     FromProto(rpc[c].method, out.msg)
                       /\ srv[c].request.kind \in {"null", "request"}

\* the server asked for the request of a search call with a damaged payload,
\* got null, and the call is still open and without error
C4_Witness ==
    \E c \in CallIds :
        /\ rpc[c].method = "search"
        /\ srv[c].decoder.state = "used"
        /\ decode_message(rpc[c].params, "SearchRequest", ndebug).status
               = "fail"
        /\ srv[c].request = NullRequest
        /\ rpc[c].returned = 0
        /\ ~crashed

HasRequest(c) == IsDecoderCall(c) /\ srv[c].request.kind = "request"

-----------------------------------------------------------------------------
(* Properties of the codec *)

DecompressedLen(values) ==
    Len(decompress(toType(values[1].v), values[2].v, values[3].v))

\* C5: whenever decode_message has run on values whose payload decompresses
\* to a length other than the declared uncompressed_size, it returned false
\* and the process is still running.
C5_SizeMismatchFailsDecode ==
    (dec.ran /\ DecompressedLen(wire) # wire[2].v) =>
        (dec.status = "fail" /\ ~crashed)

\* C6: a client side decode_X_reply on return values that are not shaped
\* (u8, i32, bytes) returns false and runs no decode_message; decode_message
\* runs exactly when the shape is right.
C6_ShapeCheckedBeforeDecode ==
    cli.ran =>
        /\ cli.attempted <=> CheckReturnTypes(wire, BIX)
        /\ dec.ran <=> cli.attempted
        /\ ~CheckReturnTypes(wire, BIX) => ~cli.result

\* a reply decode ran on return values shaped (u8, i32, i64) and failed
C6_Witness ==
    /\ cli.ran
    /\ TypeString(wire) = <<"b", "i", "l">>
    /\ ~cli.result
    /\ ~dec.ran

\* C7: decode_message on the untouched values encode_message wrote succeeds
\* and yields the message that was encoded, for each of the six message
\* types and whichever configuration the encoder read.
C7_RoundTrip ==
    (dec.ran /\ ~tampered) =>
        (dec.status = "ok" /\ dec.msg = enc.msg)

\* a message went through a compressing algorithm and came back
C7_Witness ==
    /\ dec.ran /\ ~tampered
    /\ wire[1].v \in {LZ4, ZSTD}
    /\ wire[3].v # SerializeAsString(enc.type, enc.msg)
    /\ dec.msg = enc.msg

\* C8: the values encode_message writes are, in this order, the algorithm
\* compress used, the byte length of the serialized message before
\* compression, and the payload; the declared size is that length whether
\* or not the payload was compressed.
C8_DeclaredSizeIsSerializedLength ==
    (enc.pc = "done" /\ ~tampered) =>
        /\ TypeString(wire) = BIX
        /\ wire[1].v \in Algorithms
        /\ wire[2].v = Len(SerializeAsString(enc.type, enc.msg))
        /\ wire[1].v = NONE =>
               wire[3].v = SerializeAsString(enc.type, enc.msg)

\* an envelope whose payload was compressed to fewer bytes than it declares
C8_Witness ==
    /\ enc.pc = "done" /\ ~tampered
    /\ wire[1].v = LZ4
    /\ Len(wire[3].v) < wire[2].v
    /\ wire[2].v = Len(SerializeAsString(enc.type, enc.msg))

\* C10: the three settings an encode_message invocation compresses with are
\* those of one configuration that was in force while it ran, never a mix
\* of two.
C10_ConsistentSnapshot ==
    enc.pc = "done" =>
        \E v \in enc.startVer..Len(cfgHist) : enc.snap = cfgHist[v]

-----------------------------------------------------------------------------
(* Properties of the order of events within a call *)

\* index of the first occurrence of event in log, 0 if there is none
Pos(log, event) ==
    IF Has(log, event)
    THEN CHOOSE i \in DOMAIN log :
             log[i] = event /\ \A j \in 1..(i - 1) : log[j] # event
    ELSE 0

\* both events occurred, a first
Before(log, a, b) == Has(log, a) /\ Has(log, b) /\ Pos(log, a) < Pos(log, b)

ReplyType(method) ==
    CASE method = "search" -> "SearchReply"
      [] method = "getDocsums" -> "DocsumReply"
      [] method = "ping" -> "MonitorReply"

ToProto(method, reply) ==
    CASE method = "search" -> search_reply_to_proto(reply)
      [] method = "getDocsums" -> docsum_reply_to_proto(reply)
      [] method = "ping" -> monitor_reply_to_proto(reply)

\* the return values the handler of call c writes, from what the server
\* holds for that call
OwnReturn(c) ==
    encode_message(ReplyType(rpc[c].method),
                   ToProto(rpc[c].method,
                           ServerReply(rpc[c].method, srv[c].request)),
                   get_compression_config(cfg), <<>>)

\* C11: once a call has been Returned the adapter does nothing more with
\* the call, its handler or its decoder: Return is the last event of the
\* call, in every handler and on the error path of ping, also when the
\* server's own completion has Returned the call while rpc_X was still
\* waiting for the server's invocation to return null.
C11_ReturnIsLastAccess ==
    \A c \in CallIds :
        rpc[c].returned >= 1 =>
            /\ rpc[c].log[Len(rpc[c].log)] = "Return"
            /\ Count(rpc[c].log, {"Return"}) = 1
            /\ rpc[c].returned = 1

\* the server's completion path has Returned a deferred call and rpc_X has
\* not yet come back from the invocation of the server
C11_Witness ==
    \E c \in CallIds :
        /\ srv[c].mode = "async"
        /\ srv[c].completed
        /\ rpc[c].returned = 1
        /\ disp[c] = "running"

\* C16 as stated: for each of the three kinds, the request of a call is
\* decoded before the domain server is invoked.
C16_DecodeBeforeServerInvoked ==
    \A c \in CallIds :
        Has(rpc[c].log, "InvokeServer") =>
            Before(rpc[c].log, "Decode", "InvokeServer")

\* C16 amended: on the ping path the request is decoded before the monitor
\* server is invoked; on the search and getDocsums paths the decoder is
\* constructed before the server is invoked and the request is decoded only
\* after that, when the server calls decode(), if it does at all.
C16_DecodeBeforeInvocationOnPingOnly ==
    \A c \in CallIds :
        Has(rpc[c].log, "InvokeServer") =>
            /\ rpc[c].method = "ping" =>
                   Before(rpc[c].log, "Decode", "InvokeServer")
            /\ IsDecoderCall(c) =>
                   /\ Before(rpc[c].log, "CreateDecoder", "InvokeServer")
                   /\ Has(rpc[c].log, "Decode") =>
                          Before(rpc[c].log, "InvokeServer", "Decode")

\* the request of a search call was decoded after the server was invoked
C16_Witness ==
    \E c \in CallIds :
        /\ rpc[c].method = "search"
        /\ Before(rpc[c].log, "InvokeServer", "Decode")
        /\ srv[c].request.kind = "request"

\* C17: on a search or getDocsums call decode_message runs only inside the
\* decode() the server calls on its decoder: once per decoder used, never
\* by the dispatcher, and not at all when the server does not ask, in which
\* case the call is completed without a decode.
C17_DecodeOnlyWhenServerAsks ==
    \A c \in CallIds :
        IsDecoderCall(c) =>
            /\ Count(rpc[c].log, {"Decode"}) =
                   (IF srv[c].decoder.state = "used" THEN 1 ELSE 0)
            /\ srv[c].decoder.state = "fresh" =>
                   /\ rpc[c].decodedAt = -1
                   /\ srv[c].request = NotAsked
            /\ Has(rpc[c].log, "Decode") =>
                   Before(rpc[c].log, "InvokeServer", "Decode")

\* a search call was completed by a server that never asked for the request
C17_Witness ==
    \E c \in CallIds :
        /\ rpc[c].method = "search"
        /\ Settled(c)
        /\ rpc[c].returned = 1
        /\ srv[c].decoder.state = "fresh"
        /\ ~Has(rpc[c].log, "Decode")

\* the order of the steps of call c: Detach first, before the handler is
\* allocated and the server invoked, and every run of a handler writes the
\* reply envelope and then Returns
StepsOrdered(c) ==
    /\ rpc[c].log # <<>> => rpc[c].log[1] = "Detach"
    /\ Has(rpc[c].log, "CreateHandler") =>
           Before(rpc[c].log, "Detach", "CreateHandler")
    /\ Has(rpc[c].log, "InvokeServer") =>
           /\ Before(rpc[c].log, "Detach", "InvokeServer")
           /\ Before(rpc[c].log, "CreateHandler", "InvokeServer")
    /\ \A i \in DOMAIN rpc[c].log :
           rpc[c].log[i] \in DoneEvents =>
               /\ i + 2 <= Len(rpc[c].log)
               /\ rpc[c].log[i + 1] = "Encode"
               /\ rpc[c].log[i + 2] = "Return"

\* the return values of call c are the whole envelope of its reply
WholeEnvelope(c) ==
    /\ CheckReturnTypes(rpc[c].ret, BIX)
    /\ rpc[c].ret = OwnReturn(c)
    /\ decode_message(rpc[c].ret, ReplyType(rpc[c].method),
                      ndebug).status = "ok"

\* C18 as stated: the steps of a call are ordered, and no call is finished
\* with empty or partly written return values: every Returned call carries
\* the whole envelope of its reply.
C18_NeverFinishedWithEmptyReturn ==
    \A c \in CallIds :
        /\ StepsOrdered(c)
        /\ rpc[c].returned >= 1 => WholeEnvelope(c)

\* C18 amended: in every call Detach is the first thing done, before the
\* handler is allocated and before the server is invoked; every run of a
\* handler writes the reply envelope and then Returns; a call Returned by
\* its handler carries the whole envelope of its reply and no error, a call
\* not yet Returned carries nothing, and a call Returned on the error path
\* of ping carries an error and no return values at all.
C18_DetachFirstEnvelopeBeforeReturn ==
    \A c \in CallIds :
        /\ StepsOrdered(c)
        /\ rpc[c].returned = 0 => rpc[c].ret = <<>>
        /\ (rpc[c].returned >= 1 /\ Count(rpc[c].log, DoneEvents) >= 1) =>
               /\ WholeEnvelope(c)
               /\ rpc[c].errorCode = FRTE_NO_ERROR
        /\ (rpc[c].returned >= 1 /\ Count(rpc[c].log, DoneEvents) = 0) =>
               /\ rpc[c].method = "ping"
               /\ rpc[c].errorCode = FRTE_RPC_METHOD_FAILED
               /\ rpc[c].ret = <<>>

\* a deferred getDocsums call was Returned with the envelope of its reply
C18_Witness ==
    \E c \in CallIds :
        /\ rpc[c].method = "getDocsums"
        /\ Has(rpc[c].log, "Deferred")
        /\ rpc[c].returned = 1
        /\ CheckReturnTypes(rpc[c].ret, BIX)
        /\ decode_message(rpc[c].ret, "DocsumReply", ndebug).msg =
               docsum_reply_to_proto(GoodReply("getDocsums"))

-----------------------------------------------------------------------------
(* Properties of completion *)

\* the server of call c kept the reply-or-defer contract
KeptContract(c) == ~(srv[c].mode = "both" /\ srv[c].completed)

\* C15 as stated: whatever the domain server does, the handler of a call is
\* invoked at most once and the call is Returned at most once.
C15_AtMostOnceForAnyServer ==
    \A c \in CallIds :
        /\ Count(rpc[c].log, DoneEvents) <= 1
        /\ rpc[c].returned <= 1

\* C15 amended: the adapter itself invokes the handler of a call at most
\* once whatever the server does; the handler is invoked at most once in
\* all, and the call Returned at most once, when the server keeps the
\* contract; nothing checks this at run time, so when the server has invoked
\* the handler and returns a reply as well, the handler is invoked twice.
C15_AtMostOnceUnderContract ==
    \A c \in CallIds :
        /\ Count(rpc[c].log, {"Inline"}) <= 1
        /\ KeptContract(c) =>
               /\ Count(rpc[c].log, DoneEvents) <= 1
               /\ rpc[c].returned <= 1
        /\ (~KeptContract(c) /\ disp[c] = "done") =>
               Count(rpc[c].log, DoneEvents) = 2

\* the server invoked the handler and returned a reply, and the adapter
\* invoked the handler again
C15_Witness ==
    \E c \in CallIds :
        /\ srv[c].mode = "both"
        /\ srv[c].completed
        /\ disp[c] = "done"
        /\ Has(rpc[c].log, "Deferred")
        /\ Has(rpc[c].log, "Inline")

\* C19: under the assumptions that every invocation of a domain server
\* returns and that a server that returned null invokes the handler, every
\* dispatched call is eventually Returned.
C19_EveryCallEventuallyReturned ==
    \A c \in CallIds : (disp[c] # "idle") ~> (rpc[c].returned >= 1)

\* a step changes call c
Touched(c) ==
    \/ rpc[c]' # rpc[c]
    \/ srv[c]' # srv[c]
    \/ disp[c]' # disp[c]

\* C20: a step that dispatches, decodes or completes one call leaves the
\* parameters, return values, handler, decoder and completion state of
\* every other call as they were, in whatever order the calls complete; and
\* the return values of a completed call are made from what the server
\* holds for that call alone.
C20_CallsIsolated ==
    /\ [][\A c, d \in CallIds : (c # d /\ Touched(c)) => ~Touched(d)]_vars
    /\ [](\A c \in CallIds :
              (rpc[c].returned = 1 /\ Has(rpc[c].log, "Encode")) =>
                  rpc[c].ret = OwnReturn(c))

\* the second call to arrive was completed while the first is still open
C20_Witness ==
    /\ rpc[1].method # "none" /\ rpc[1].returned = 0
    /\ rpc[1].ret = <<>>
    /\ rpc[2].returned = 1
    /\ rpc[2].params # rpc[1].params

-----------------------------------------------------------------------------
(* Properties of registration and of the client side encoders *)

Handler(kind) ==
    CASE kind = "search" -> "rpc_search"
      [] kind = "getDocsums" -> "rpc_getDocsums"
      [] kind = "ping" -> "rpc_ping"

\* the method name encode_X_request sets for a kind
ClientMethodName(kind) ==
    encode_request(kind, <<>>, NoOut, DefaultConfig).methodName

\* C14: the supervisor holds exactly three methods, each taking and
\* returning (u8, i32, bytes), under three different names; for each kind
\* the name the client side encoder sets is the name the function of that
\* kind was defined under; so a call a client encoded is delivered to the
\* rpc_X of its kind, with the parameters the client wrote.
C14_ClientNamesMatchRegistration ==
    /\ Len(orb) = 3
    /\ \A i \in DOMAIN orb : orb[i].params = BIX /\ orb[i].ret = BIX
    /\ \A i, j \in DOMAIN orb : orb[i].name = orb[j].name => i = j
    /\ \A kind \in Methods :
           \E i \in DOMAIN orb :
               /\ orb[i].handler = Handler(kind)
               /\ orb[i].name = ClientMethodName(kind)
    /\ outbound.kind # "none" =>
           /\ outbound.methodName = ClientMethodName(outbound.kind)
           /\ TypeString(outbound.params) = BIX
    /\ \A c \in CallIds :
           rpc[c].method # "none" =>
               /\ rpc[c].method = outbound.kind
               /\ rpc[c].params = outbound.params

\* a monitor request a client encoded reached the monitor server
C14_Witness ==
    /\ outbound.kind = "ping"
    /\ outbound.msg # <<>>
    /\ rpc[1].method = "ping"
    /\ srv[1].request =
           Request(NoClock, monitor_request_from_proto(outbound.msg))

-----------------------------------------------------------------------------
(* Properties of Coverage *)

CountsOrdered(c) ==
    /\ c.covered <= c.active
    /\ c.nodesReplied <= c.nodesQueried

\* the operations that store a count the caller passes
CountStores ==
    {"Coverage2", "setCovered", "setActive", "setNodesQueried",
     "setNodesReplied"}

\* C12 as stated: covered <= active and nodesReplied <= nodesQueried in
\* every reachable state of a Coverage record.
C12_CountsAlwaysOrdered == CountsOrdered(coverage)

\* C12 amended: covered <= active and nodesReplied <= nodesQueried hold of
\* a record constructed by Coverage() or Coverage(active), and every
\* operation other than setCovered, setActive, setNodesQueried,
\* setNodesReplied and Coverage(active, covered) preserves them; those five
\* store the counts they are given, whatever they are.
C12_CountsOrderedUnlessStored ==
    /\ [](covOp.name \in {"Coverage0", "Coverage1"} =>
              /\ CountsOrdered(coverage)
              /\ coverage.covered = coverage.active
              /\ coverage.nodesReplied = coverage.nodesQueried)
    /\ [][covOp'.name \notin CountStores =>
              (CountsOrdered(coverage) => CountsOrdered(coverage'))]_vars
    /\ [][/\ covOp'.name = "setCovered" =>
                 coverage'.covered = covOp'.arg
          /\ covOp'.name = "setActive" =>
                 coverage'.active = covOp'.arg
          /\ covOp'.name = "setNodesQueried" =>
                 coverage'.nodesQueried = covOp'.arg
          /\ covOp'.name = "setNodesReplied" =>
                 coverage'.nodesReplied = covOp'.arg
          /\ covOp'.name = "Coverage2" =>
                 /\ coverage'.active = covOp'.arg
                 /\ coverage'.covered = covOp'.arg2]_vars

\* a record with covered below active went through a degrade operation
C12_Witness ==
    /\ covOp.name = "degradeTimeout"
    /\ 0 < coverage.covered
    /\ coverage.covered < coverage.active
    /\ coverage.nodesReplied < coverage.nodesQueried

\* every bit of mask a is a bit of mask b
SubMask(a, b) == \A bit \in DegradeReasons : HasBit(a, bit) => HasBit(b, bit)

\* C13 as stated: no operation on a Coverage record, setDegradeReason and
\* the three degrade operations included, clears a bit of the degrade-reason
\* bitmask.
C13_MaskOnlyGrows ==
    [][covOp'.name \notin Constructors =>
           SubMask(coverage.degradeReason, coverage'.degradeReason)]_vars

\* C13 amended: degradeMatchPhase, degradeTimeout and degradeAdaptiveTimeout
\* add their own bit and keep every bit that was set, and the count setters
\* leave the bitmask alone; setDegradeReason replaces the bitmask by its
\* argument and so clears the bits the argument lacks.
C13_MaskGrowsExceptWhenSet ==
    [][/\ covOp'.name \notin (Constructors \cup {"setDegradeReason"}) =>
              SubMask(coverage.degradeReason, coverage'.degradeReason)
       /\ covOp'.name = "degradeMatchPhase" =>
              coverage'.degradeReason =
                  BitOr(coverage.degradeReason, MATCH_PHASE)
       /\ covOp'.name = "degradeTimeout" =>
              coverage'.degradeReason =
                  BitOr(coverage.degradeReason, TIMEOUT)
       /\ covOp'.name = "degradeAdaptiveTimeout" =>
              coverage'.degradeReason =
                  BitOr(coverage.degradeReason, ADAPTIVE_TIMEOUT)
       /\ covOp'.name = "setDegradeReason" =>
              coverage'.degradeReason = covOp'.arg]_vars

\* degradeTimeout ran on a record degraded by match phase, and both bits
\* are set
C13_Witness ==
    /\ covOp.name = "degradeTimeout"
    /\ wasDegradedByMatchPhase(coverage)
    /\ wasDegradedByTimeout(coverage)
    /\ coverage.degradeReason = MATCH_PHASE + TIMEOUT

====
